---- MODULE Spec2Model ----
\* A model of the two merge scripts, merge_code.py (content pass only) and
\* mergecode.py (structure pass, then content pass).
\*
\* Python strings are sequences of one-character strings, so that splitext,
\* replace, count, basename, join and relpath are computed character by
\* character, as the library computes them.
EXTENDS Integers, Sequences, FiniteSets, TLC

VARIABLES variant, root_dir, tree, unreadable, run, pc, outOpen, doc, prevDoc, stack, cur, pending, stdout, opened, visited, listed, tname, tres

vars == <<variant, root_dir, tree, unreadable, run, pc, outOpen, doc, prevDoc, stack, cur, pending, stdout, opened, visited, listed, tname, tres>>

\* ------------------------------------------------------------------ bounds

\* Most directories below the root in a generated tree (and so the deepest
\* a directory lies below the root).
MaxDirs == 2

\* Most files in a generated tree (the output document not counted).
MaxFiles == 2

\* Number of consecutive invocations of the script that are modelled.
MaxRuns == 2

\* Longest file name handed to the inclusion test on its own.
MaxNameLen == 5

\* ------------------------------------------------------------ configuration

ALLOWED_EXTENSIONS_merge_code == { <<".","s","w","i","f","t">>, <<".","h">>, <<".","m">>, <<".","c">>, <<".","c","p","p">> }

ALLOWED_EXTENSIONS_mergecode == { <<".","s","w","i","f","t">>, <<".","c","p","p">>, <<".","x","c","p","r","i","v","a","c","y">>, <<".","p","l","i","s","t">> }

\* Mutant of ALLOWED_EXTENSIONS: ".txt" is added to the allow-set.
ALLOWED_EXTENSIONS_with_txt(v) == (IF v = "merge_code" THEN ALLOWED_EXTENSIONS_merge_code ELSE ALLOWED_EXTENSIONS_mergecode) \cup { <<".","t","x","t">> }

\* The allow-set of the script that is running.
ALLOWED_EXTENSIONS(v) == IF v = "merge_code" THEN ALLOWED_EXTENSIONS_merge_code ELSE ALLOWED_EXTENSIONS_mergecode

IGNORE_DIRS == { <<"P","o","d","s">>, <<".","g","i","t">>, <<"D","e","r","i","v","e","d","D","a","t","a">>, <<"A","s","s","e","t","s",".","x","c","a","s","s","e","t","s">>, <<"P","r","e","v","i","e","w"," ","C","o","n","t","e","n","t">>, <<"f","a","s","t","l","a","n","e">>, <<"b","u","i","l","d">> }

OUTPUT_FILE == <<"F","u","l","l","P","r","o","j","e","c","t","S","o","u","r","c","e",".","t","x","t">>

\* Width of the '=' separator line of a FILE header.
SeparatorWidth == 50

\* Width of the '=' rule under "PROJECT STRUCTURE:".
TitleRuleWidth == 18

\* Spaces per indentation level of the structure listing.
IndentWidth == 4

\* os.sep, os.extsep, os.pardir, os.curdir on POSIX.
sep == "/"

extsep == "."

pardir == <<".", ".">>

curdir == <<".">>

\* --------------------------------------------------------- string library

Max(S) == CHOOSE x \in S : \A y \in S : y <= x

Min(S) == CHOOSE x \in S : \A y \in S : x <= y

Range(s) == { s[i] : i \in 1..Len(s) }

\* str.rfind(c) for a one-character c, 1-based; 0 when c does not occur
\* (Python's -1).
rfind(s, c) == LET I == { i \in 1..Len(s) : s[i] = c } IN IF I = {} THEN 0 ELSE Max(I)

\* str.find(c), 1-based; 0 when c does not occur.
find(s, c) == LET I == { i \in 1..Len(s) : s[i] = c } IN IF I = {} THEN 0 ELSE Min(I)

\* str.count(c) for a one-character c.
count(s, c) == Cardinality({ i \in 1..Len(s) : s[i] = c })

\* str.replace(old, new) for a non-empty old: occurrences are found left to
\* right and do not overlap.
RECURSIVE replace(_, _, _)
replace(s, old, new) ==
    IF Len(s) < Len(old) THEN s
    ELSE IF SubSeq(s, 1, Len(old)) = old
         THEN new \o replace(SubSeq(s, Len(old) + 1, Len(s)), old, new)
         ELSE <<s[1]>> \o replace(Tail(s), old, new)

\* genericpath._splitext: the loop that skips the leading dots of the name.
RECURSIVE SkipLeadingDots(_, _, _)
SkipLeadingDots(p, filenameIndex, dotIndex) ==
    IF filenameIndex < dotIndex
    THEN IF p[filenameIndex] # extsep
         THEN <<SubSeq(p, 1, dotIndex - 1), SubSeq(p, dotIndex, Len(p))>>
         ELSE SkipLeadingDots(p, filenameIndex + 1, dotIndex)
    ELSE <<p, <<>>>>

\* Mutant of splitext: the extension starts at the first dot, not the last.
splitext_first_dot(p) ==
    LET sepIndex == rfind(p, sep)
        dotIndex == find(p, extsep)
    IN  IF dotIndex > sepIndex THEN SkipLeadingDots(p, sepIndex + 1, dotIndex) ELSE <<p, <<>>>>

\* os.path.splitext(p): <<root, ext>>.
splitext(p) ==
    LET sepIndex == rfind(p, sep)
        dotIndex == rfind(p, extsep)
    IN  IF dotIndex > sepIndex THEN SkipLeadingDots(p, sepIndex + 1, dotIndex) ELSE <<p, <<>>>>

\* os.path.basename(p): what follows the last separator.
basename(p) == SubSeq(p, rfind(p, sep) + 1, Len(p))

\* os.path.join(a, b) on POSIX.
join(a, b) ==
    IF b # <<>> /\ b[1] = sep THEN b
    ELSE IF a = <<>> \/ a[Len(a)] = sep THEN a \o b
    ELSE a \o <<sep>> \o b

\* [x for x in p.split(sep) if x]: the maximal runs of characters other than
\* the separator, in order.
SplitParts(p) ==
    LET starts == { i \in 1..Len(p) : p[i] # sep /\ (i = 1 \/ p[i - 1] = sep) }
        endOf(i) == Min({ j \in i..Len(p) : j = Len(p) \/ p[j + 1] = sep })
        nth(n) == CHOOSE i \in starts : Cardinality({ t \in starts : t < i }) = n - 1
    IN  [n \in 1..Cardinality(starts) |-> SubSeq(p, nth(n), endOf(nth(n)))]

\* len(os.path.commonprefix([a, b])) for two lists of components: the
\* number of leading components the two share.
CommonPrefixLen(a, b) == Max({ n \in 0..Min({ Len(a), Len(b) }) : \A k \in 1..n : a[k] = b[k] })

\* join(*parts) for a non-empty list of components.
RECURSIVE JoinAll(_)
JoinAll(parts) == IF Len(parts) = 1 THEN parts[1] ELSE join(parts[1], JoinAll(Tail(parts)))

\* rel_list of os.path.relpath, from the two lists of components.
RelList(start_list, path_list) ==
    LET i == CommonPrefixLen(start_list, path_list)
    IN  [k \in 1..(Len(start_list) - i) |-> pardir] \o SubSeq(path_list, i + 1, Len(path_list))

\* os.path.relpath(path, start) for absolute, normalised path and start (what
\* os.getcwd and os.walk hand to it). Each intermediate list is computed once.
relpath(path, start) ==
    CHOOSE r \in { IF rel_list = <<>> THEN curdir ELSE JoinAll(rel_list) :
                   rel_list \in { RelList(start_list, path_list) : start_list \in { SplitParts(start) }, path_list \in { SplitParts(path) } } } : TRUE

\* ------------------------------------------------------------ file system

\* Directory names of the generated trees: one ordinary, one in IGNORE_DIRS.
DirNames == { <<"a">>, <<"b","u","i","l","d">> }

\* The working directories the script is started in (os.getcwd()): the file
\* system root, a directory whose name is also a directory name of the tree,
\* and a directory whose name is not.
RootDirs == { <<"/">>, <<"/","a">>, <<"/","r">> }

\* The file lists a directory of a generated tree may hold, in listing order.
FileLists == { <<>>, << <<"x",".","s","w","i","f","t">> >>, << <<"y",".","h">> >>, << <<".","p","l","i","s","t">> >>, << <<"m",".","c","p","p">>, <<"x",".","s","w","i","f","t">> >> }

\* Every directory path below the root, as a list of names, root first.
AllRelDirs == UNION { [1..n -> DirNames] : n \in 0..MaxDirs }

\* The sets of directories that form a tree: the root is there, and so is the
\* parent of every directory.
Shapes == { S \in SUBSET AllRelDirs : /\ <<>> \in S
                                      /\ Cardinality(S) <= MaxDirs + 1
                                      /\ \A d \in S : d = <<>> \/ SubSeq(d, 1, Len(d) - 1) \in S }

ChildNames(S, d) == { n \in DirNames : Append(d, n) \in S }

\* The orders in which a directory listing may return the names N.
Orders(N) == { s \in [1..Cardinality(N) -> N] : Range(s) = N }

OrdersFor(S) == { o \in [S -> UNION { Orders(N) : N \in SUBSET DirNames }] : \A d \in S : o[d] \in Orders(ChildNames(S, d)) }

RECURSIVE TotalLen(_, _)
TotalLen(f, S) == IF S = {} THEN 0 ELSE LET d == CHOOSE x \in S : TRUE IN Len(f[d]) + TotalLen(f, S \ {d})

FilesFor(S) == { f \in [S -> FileLists] : TotalLen(f, S) <= MaxFiles }

\* The directory trees: each directory (named by its path below the root)
\* with its subdirectory names and its file names, both in listing order.
Trees == UNION { { [d \in S |-> [dirs |-> o[d], files |-> f[d]]] : o \in OrdersFor(S), f \in FilesFor(S) } : S \in Shapes }

\* The path string of the directory `rel` below `root`, built as os.walk
\* builds it: join(top, name) at every level.
RECURSIVE AbsPath(_, _)
AbsPath(root, rel) == IF rel = <<>> THEN root ELSE AbsPath(join(root, rel[1]), Tail(rel))

\* The path strings of all files of tree t under root.
FilePaths(root, t) == UNION { { join(AbsPath(root, d), f) : f \in Range(t[d].files) } : d \in DOMAIN t }

\* The directory a path string names (the file system's path resolution).
Resolve(path) == CHOOSE d \in DOMAIN tree : AbsPath(root_dir, d) = path

\* os.scandir(path) as os.walk splits it: the subdirectories and the files.
scandir(path) == tree[Resolve(path)]

\* The bytes of a file: its own path, then one byte that is not valid UTF-8.
FileBytes(path) == path \o <<"\\xff">>

\* decode(errors="ignore"): undecodable bytes are dropped.
Decode(bytes) == SelectSeq(bytes, LAMBDA b : b # "\\xff")

\* s with x inserted after its first k elements.
InsertAt(s, k, x) == SubSeq(s, 1, k) \o <<x>> \o SubSeq(s, k + 1, Len(s))

Variants == { "merge_code", "mergecode" }

NoCur == [root |-> <<>>, dirs |-> <<>>, files |-> <<>>]

Init ==
    /\ variant \in Variants
    /\ root_dir \in RootDirs
    /\ tree \in Trees
    /\ unreadable \in SUBSET { p \in FilePaths(root_dir, tree) : splitext(p)[2] \in ALLOWED_EXTENSIONS(variant) }
    /\ run = 1
    /\ pc = "start"
    /\ outOpen = FALSE
    /\ doc = <<>>
    /\ prevDoc = <<>>
    /\ stack = <<>>
    /\ cur = NoCur
    /\ pending = <<>>
    /\ stdout = <<>>
    /\ opened = <<>>
    /\ visited = <<>>
    /\ listed = <<>>
    /\ tname = <<>>
    /\ tres = "untested"

\* ------------------------------------------------------------ the scripts

\* One outfile.write call: `lead` newlines, `indent` spaces (or '=' signs, for
\* a rule), the text, `trail` newlines.
Chunk(kind, lead, indent, text, trail) == [kind |-> kind, lead |-> lead, indent |-> indent, text |-> text, trail |-> trail]

\* Mutant of IsIncluded: filename.endswith(ext) for some allowed ext.
IsIncluded_endswith(filename, v) == \E e \in ALLOWED_EXTENSIONS(v) : Len(e) <= Len(filename) /\ SubSeq(filename, Len(filename) - Len(e) + 1, Len(filename)) = e

\* ext = os.path.splitext(filename)[1]; ext in ALLOWED_EXTENSIONS
IsIncluded(filename, v) == splitext(filename)[2] \in ALLOWED_EXTENSIONS(v)

\* Mutant of Prune: the filtered list is bound to a new name (dirs = [...])
\* and the walk's own list is left as it was.
Prune_rebound(dirs) == dirs

\* Mutant of Prune: the test is inverted (if d in IGNORE_DIRS).
Prune_inverted(dirs) == SelectSeq(dirs, LAMBDA d : d \in IGNORE_DIRS)

\* dirs[:] = [d for d in dirs if d not in IGNORE_DIRS]
Prune(dirs) == SelectSeq(dirs, LAMBDA d : d \notin IGNORE_DIRS)

\* Mutant of StructFiles: every file of the directory is listed.
StructFiles_unfiltered(files, v) == files

\* The files of a directory that the structure pass lists.
StructFiles(files, v) == SelectSeq(files, LAMBDA f : IsIncluded(f, v))

\* level = root.replace(startpath, '').count(os.sep)
Level(root, startpath) == count(replace(root, startpath, <<>>), sep)

\* The separator, FILE and separator lines the content pass writes for a file.
Header(relative_path, v) ==
    << Chunk("rule", IF v = "merge_code" THEN 1 ELSE 0, SeparatorWidth, <<>>, 1),
       Chunk("file", 0, 0, relative_path, 1),
       Chunk("rule", 0, SeparatorWidth, <<>>, 2) >>

\* The os.walk generator resumed: the directories left to walk, once the
\* subdirectories of the directory just yielded (as the loop body left the
\* list) are put in front of them.
Pushed == [i \in 1..Len(cur.dirs) |-> join(cur.root, cur.dirs[i])] \o stack

\* Mutant of OpenOutput: the output is opened with mode "a".
OpenOutput_append ==
    /\ pc = "start"
    /\ IF OUTPUT_FILE \in Range(tree[<<>>].files)
       THEN tree' = tree
       ELSE \E k \in 0..Len(tree[<<>>].files) : tree' = [tree EXCEPT ![<<>>].files = InsertAt(@, k, OUTPUT_FILE)]
    /\ doc' = doc
    /\ outOpen' = TRUE
    /\ pc' = IF variant = "mergecode" THEN "structure_begin" ELSE "content_begin"
    /\ UNCHANGED <<variant, root_dir, unreadable, run, prevDoc, stack, cur, pending, stdout, opened, visited, listed, tname, tres>>

\* open(OUTPUT_FILE, "w"): the file is created in the working directory (at
\* any place of its listing) if it is not there, and truncated.
OpenOutput ==
    /\ pc = "start"
    /\ IF OUTPUT_FILE \in Range(tree[<<>>].files)
       THEN tree' = tree
       ELSE \E k \in 0..Len(tree[<<>>].files) : tree' = [tree EXCEPT ![<<>>].files = InsertAt(@, k, OUTPUT_FILE)]
    /\ doc' = <<>>
    /\ outOpen' = TRUE
    /\ pc' = IF variant = "mergecode" THEN "structure_begin" ELSE "content_begin"
    /\ UNCHANGED <<variant, root_dir, unreadable, run, prevDoc, stack, cur, pending, stdout, opened, visited, listed, tname, tres>>

\* mergecode.py: the progress message and the head of write_tree_structure.
StructBegin ==
    /\ pc = "structure_begin"
    /\ stdout' = Append(stdout, [msg |-> "generating", text |-> <<>>])
    /\ doc' = doc \o << Chunk("title", 0, 0, <<>>, 1), Chunk("rule", 0, TitleRuleWidth, <<>>, 1) >>
    /\ stack' = <<root_dir>>
    /\ cur' = NoCur
    /\ pc' = "structure_walk"
    /\ UNCHANGED <<variant, root_dir, tree, unreadable, run, outOpen, prevDoc, pending, opened, visited, listed, tname, tres>>

\* os.walk yields the next directory, in either pass.
WalkYield ==
    /\ pc \in { "structure_walk", "content_walk" }
    /\ Pushed # <<>>
    /\ LET top == Head(Pushed)
           l == scandir(top)
       IN  /\ cur' = [root |-> top, dirs |-> l.dirs, files |-> l.files]
           /\ visited' = Append(visited, [pass |-> IF pc = "structure_walk" THEN "structure" ELSE "content", root |-> top])
    /\ stack' = Tail(Pushed)
    /\ pc' = IF pc = "structure_walk" THEN "structure_body" ELSE "content_body"
    /\ UNCHANGED <<variant, root_dir, tree, unreadable, run, outOpen, doc, prevDoc, pending, stdout, opened, listed, tname, tres>>

\* write_tree_structure's loop body: prune, the directory line, the lines of
\* the directory's included files.
StructBody ==
    /\ pc = "structure_body"
    /\ LET level == Level(cur.root, root_dir)
           indent == IndentWidth * level
           subindent == IndentWidth * (level + 1)
           fs == StructFiles(cur.files, variant)
       IN  /\ doc' = doc \o << Chunk("dir", 0, indent, basename(cur.root), 1) >> \o [i \in 1..Len(fs) |-> Chunk("entry", 0, subindent, fs[i], 1)]
           /\ listed' = listed \o << [kind |-> "dir", dir |-> cur.root, name |-> <<>>, indent |-> indent] >> \o [i \in 1..Len(fs) |-> [kind |-> "entry", dir |-> cur.root, name |-> fs[i], indent |-> subindent]]
    /\ cur' = [cur EXCEPT !.dirs = Prune(@)]
    /\ pc' = "structure_walk"
    /\ UNCHANGED <<variant, root_dir, tree, unreadable, run, outOpen, prevDoc, stack, pending, stdout, opened, visited, tname, tres>>

\* The structure walk is exhausted: the two-blank-line terminator.
StructEnd ==
    /\ pc = "structure_walk"
    /\ Pushed = <<>>
    /\ doc' = Append(doc, Chunk("blank", 0, 0, <<>>, 2))
    /\ cur' = NoCur
    /\ pc' = "content_begin"
    /\ UNCHANGED <<variant, root_dir, tree, unreadable, run, outOpen, prevDoc, stack, pending, stdout, opened, visited, listed, tname, tres>>

\* The content pass starts its own os.walk(root_dir).
ContentBegin ==
    /\ pc = "content_begin"
    /\ stdout' = IF variant = "mergecode" THEN Append(stdout, [msg |-> "merging", text |-> <<>>]) ELSE stdout
    /\ stack' = <<root_dir>>
    /\ cur' = NoCur
    /\ pc' = "content_walk"
    /\ UNCHANGED <<variant, root_dir, tree, unreadable, run, outOpen, doc, prevDoc, pending, opened, visited, listed, tname, tres>>

\* The content loop's body up to the loop over the files: prune. With no
\* file to loop over, control is back in os.walk.
ContentBody ==
    /\ pc = "content_body"
    /\ cur' = [cur EXCEPT !.dirs = Prune(@)]
    /\ pending' = cur.files
    /\ pc' = IF cur.files = <<>> THEN "content_walk" ELSE "files"
    /\ UNCHANGED <<variant, root_dir, tree, unreadable, run, outOpen, doc, prevDoc, stack, stdout, opened, visited, listed, tname, tres>>

\* Where control is once the file at the head of the loop is dealt with: at
\* the next file, or back in os.walk after the directory's last file.
AfterFile == IF Tail(pending) = <<>> THEN "content_walk" ELSE "files"

\* A file whose extension is not in the allow-set.
SkipFile ==
    /\ pc = "files"
    /\ pending # <<>>
    /\ ~IsIncluded(Head(pending), variant)
    /\ pending' = Tail(pending)
    /\ pc' = AfterFile
    /\ UNCHANGED <<variant, root_dir, tree, unreadable, run, outOpen, doc, prevDoc, stack, cur, stdout, opened, visited, listed, tname, tres>>

\* An included file that is read: header, contents, trailing newlines.
WriteBlock ==
    /\ pc = "files"
    /\ pending # <<>>
    /\ IsIncluded(Head(pending), variant)
    /\ LET file_path == join(cur.root, Head(pending))
           relative_path == relpath(file_path, root_dir)
       IN  /\ file_path \notin unreadable
           /\ opened' = Append(opened, file_path)
           /\ doc' = doc \o Header(relative_path, variant) \o << Chunk("content", 0, 0, Decode(FileBytes(file_path)), 0), Chunk("blank", 0, 0, <<>>, IF variant = "merge_code" THEN 1 ELSE 2) >>
    /\ pending' = Tail(pending)
    /\ pc' = AfterFile
    /\ UNCHANGED <<variant, root_dir, tree, unreadable, run, outOpen, prevDoc, stack, cur, stdout, visited, listed, tname, tres>>

\* Mutant of ReadFails: the exception is not caught; the with statement
\* closes the output and the run ends without the success message.
ReadFails_uncaught ==
    /\ pc = "files"
    /\ pending # <<>>
    /\ IsIncluded(Head(pending), variant)
    /\ LET file_path == join(cur.root, Head(pending))
           relative_path == relpath(file_path, root_dir)
       IN  /\ file_path \in unreadable
           /\ opened' = Append(opened, file_path)
           /\ doc' = doc \o Header(relative_path, variant)
    /\ outOpen' = FALSE
    /\ pc' = "aborted"
    /\ UNCHANGED <<variant, root_dir, tree, unreadable, run, prevDoc, stack, cur, pending, stdout, visited, listed, tname, tres>>

\* An included file whose open or read raises: the header is already
\* written; the except clause prints the diagnostic and the loop goes on.
ReadFails ==
    /\ pc = "files"
    /\ pending # <<>>
    /\ IsIncluded(Head(pending), variant)
    /\ LET file_path == join(cur.root, Head(pending))
           relative_path == relpath(file_path, root_dir)
       IN  /\ file_path \in unreadable
           /\ opened' = Append(opened, file_path)
           /\ doc' = doc \o Header(relative_path, variant)
           /\ stdout' = Append(stdout, [msg |-> "could_not_read", text |-> relative_path])
    /\ pending' = Tail(pending)
    /\ pc' = AfterFile
    /\ UNCHANGED <<variant, root_dir, tree, unreadable, run, outOpen, prevDoc, stack, cur, visited, listed, tname, tres>>

\* The content walk is exhausted: the with statement closes the output and
\* the success message is printed.
ContentEnd ==
    /\ pc = "content_walk"
    /\ Pushed = <<>>
    /\ outOpen' = FALSE
    /\ stdout' = Append(stdout, [msg |-> "success", text |-> OUTPUT_FILE])
    /\ cur' = NoCur
    /\ pc' = "done"
    /\ UNCHANGED <<variant, root_dir, tree, unreadable, run, doc, prevDoc, stack, pending, opened, visited, listed, tname, tres>>

\* The script is started again in the same directory, nothing else changed.
Rerun ==
    /\ pc = "done"
    /\ run < MaxRuns
    /\ run' = run + 1
    /\ prevDoc' = doc
    /\ stdout' = <<>>
    /\ opened' = <<>>
    /\ visited' = <<>>
    /\ listed' = <<>>
    /\ pc' = "start"
    /\ UNCHANGED <<variant, root_dir, tree, unreadable, outOpen, doc, stack, cur, pending, tname, tres>>

Next ==
    \/ OpenOutput
    \/ StructBegin
    \/ WalkYield
    \/ StructBody
    \/ StructEnd
    \/ ContentBegin
    \/ ContentBody
    \/ SkipFile
    \/ WriteBlock
    \/ ReadFails
    \/ ContentEnd
    \/ Rerun

Spec == Init /\ [][Next]_vars

\* The script runs to its end: no step that can be taken is put off for ever.
FairSpec == Spec /\ WF_vars(Next)

\* ------------------------------------------- the inclusion test on its own

\* The characters of the file names handed to the inclusion test.
Alphabet == { ".", "h", "c", "p", "H" }

Names == UNION { [1..n -> Alphabet] : n \in 1..MaxNameLen }

InitExt ==
    /\ variant \in Variants
    /\ tname \in Names
    /\ tres = "untested"
    /\ root_dir = <<"/">>
    /\ tree = [d \in { <<>> } |-> [dirs |-> <<>>, files |-> <<>>]]
    /\ unreadable = {}
    /\ run = 1
    /\ pc = "test"
    /\ outOpen = FALSE
    /\ doc = <<>>
    /\ prevDoc = <<>>
    /\ stack = <<>>
    /\ cur = NoCur
    /\ pending = <<>>
    /\ stdout = <<>>
    /\ opened = <<>>
    /\ visited = <<>>
    /\ listed = <<>>

\* The test both passes apply to a file name.
TestInclusion ==
    /\ pc = "test"
    /\ tres = "untested"
    /\ tres' = IF IsIncluded(tname, variant) THEN "included" ELSE "excluded"
    /\ UNCHANGED <<variant, root_dir, tree, unreadable, run, pc, outOpen, doc, prevDoc, stack, cur, pending, stdout, opened, visited, listed, tname>>

NextExt == TestInclusion

SpecExt == InitExt /\ [][NextExt]_vars

\* ------------------------------------------------------- reference notions

\* The directory `rel` (a path below the root) is an ignored directory or
\* lies in one.
UnderIgnored(rel) == \E i \in 1..Len(rel) : rel[i] \in IGNORE_DIRS

\* The extension as the specification words it: from the last '.' to the end.
LastDotExt(f) == IF \E k \in 1..Len(f) : f[k] = "." THEN LET k == CHOOSE k \in 1..Len(f) : f[k] = "." /\ \A j \in (k + 1)..Len(f) : f[j] # "." IN SubSeq(f, k, Len(f)) ELSE <<>>

\* The extension with leading dots set aside: from the last '.' to the end
\* when some character other than '.' stands before that dot, else empty.
StemmedExt(f) == IF \E k \in 1..Len(f) : f[k] = "." /\ (\A j \in (k + 1)..Len(f) : f[j] # ".") /\ (\E j \in 1..(k - 1) : f[j] # ".") THEN LastDotExt(f) ELSE <<>>

\* The file is one the running script is to include, going by its name.
Eligible(f) == StemmedExt(f) \in IF variant = "merge_code" THEN ALLOWED_EXTENSIONS_merge_code ELSE ALLOWED_EXTENSIONS_mergecode

\* The path of file f of directory rel, relative to the root: the names
\* with a '/' between them.
RECURSIVE SlashJoin(_)
SlashJoin(parts) == IF Len(parts) = 1 THEN parts[1] ELSE parts[1] \o <<"/">> \o SlashJoin(Tail(parts))

RelName(rel, f) == SlashJoin(Append(rel, f))

\* The files of the tree, each as <<directory below the root, name>>.
TreeFiles == UNION { { <<d, f>> : f \in Range(tree[d].files) } : d \in DOMAIN tree }

\* The files the run is to merge.
Included == { df \in TreeFiles : Eligible(df[2]) /\ ~UnderIgnored(df[1]) }

\* The places of the document where the FILE line of path p stands.
FileLines(p) == { i \in 1..Len(doc) : doc[i].kind = "file" /\ doc[i].text = p }

\* The places of the document where the contents of the file at `path` stand.
ContentChunks(path) == { i \in 1..Len(doc) : doc[i].kind = "content" /\ doc[i].text = Decode(FileBytes(path)) }

FilePathOf(df) == join(AbsPath(root_dir, df[1]), df[2])

\* ------------------------------------------------------------------ claims

\* C1: when every file is readable, a finished run has written exactly one
\* FILE block (one FILE line, one copy of the contents) for every file with
\* an allowed extension and no ignored directory above it.
C1_EachIncludedFileOnce == (pc = "done" /\ unreadable = {}) => \A df \in Included : Cardinality(FileLines(RelName(df[1], df[2]))) = 1 /\ Cardinality(ContentChunks(FilePathOf(df))) = 1

C1_Witness == pc = "done" /\ unreadable = {} /\ (\E df \in Included : Len(df[1]) >= 1) /\ (\E df \in TreeFiles : UnderIgnored(df[1]) /\ Eligible(df[2]))

\* C2: a file whose extension is not allowed, or that lies under an ignored
\* directory, never gets a FILE line, never gets a line of the structure
\* listing, and is never opened.
C2_NoTraceOfExcluded == \A df \in TreeFiles \ Included : /\ FileLines(RelName(df[1], df[2])) = {}
                                                          /\ FilePathOf(df) \notin Range(opened)
                                                          /\ ~\E i \in 1..Len(listed) : listed[i].kind = "entry" /\ join(listed[i].dir, listed[i].name) = FilePathOf(df)

C2_Witness == pc = "done" /\ variant = "mergecode" /\ (\E df \in TreeFiles : UnderIgnored(df[1]) /\ Eligible(df[2])) /\ (\E df \in TreeFiles : ~UnderIgnored(df[1]) /\ ~Eligible(df[2]) /\ df[2] # OUTPUT_FILE)

\* C3 (as claimed): after a finished run every included file that could not
\* be read has its diagnostic and has no FILE line in the document.
C3_UnreadableLeavesNoHeader == pc = "done" => \A df \in Included : FilePathOf(df) \in unreadable => /\ \E i \in 1..Len(stdout) : stdout[i].msg = "could_not_read" /\ stdout[i].text = RelName(df[1], df[2])
                                                                                                  /\ FileLines(RelName(df[1], df[2])) = {}

\* C4: whichever included files cannot be read, a finished run has closed
\* the output, printed the success message, printed a diagnostic for every
\* unreadable included file and written the contents of every readable one;
\* and every run that starts finishes.
C4_ReadFailureNeverAborts == /\ [](pc = "done" => /\ ~outOpen
                                                  /\ stdout # <<>> /\ stdout[Len(stdout)].msg = "success"
                                                  /\ \A df \in Included : IF FilePathOf(df) \in unreadable THEN \E i \in 1..Len(stdout) : stdout[i].msg = "could_not_read" /\ stdout[i].text = RelName(df[1], df[2]) ELSE Cardinality(ContentChunks(FilePathOf(df))) = 1)
                             /\ ((pc = "start") ~> (pc = "done"))

C4_Witness == pc = "done" /\ \E i \in 1..Len(opened) : \E j \in 1..Len(opened) : i < j /\ opened[i] \in unreadable /\ opened[j] \notin unreadable

\* C5: no walk ever visits, or holds for a later visit, an ignored directory
\* or a directory inside one.
C5_IgnoredNeverVisited == /\ \A i \in 1..Len(visited) : ~UnderIgnored(Resolve(visited[i].root))
                          /\ \A i \in 1..Len(stack) : ~UnderIgnored(Resolve(stack[i]))

C5_Witness == pc = "done" /\ variant = "mergecode" /\ (\E d \in DOMAIN tree : Len(d) = 2 /\ d[1] \in IGNORE_DIRS /\ d[2] \notin IGNORE_DIRS) /\ Len(visited) >= 2

\* C6: the output document is never opened as an input and gets neither a
\* FILE line nor a line of the structure listing, in the first run or a later one.
C6_OutputNeverInput == /\ join(root_dir, OUTPUT_FILE) \notin Range(opened)
                       /\ FileLines(OUTPUT_FILE) = {}
                       /\ ~\E i \in 1..Len(listed) : listed[i].kind = "entry" /\ listed[i].name = OUTPUT_FILE

C6_Witness == run = 2 /\ pc = "done" /\ OUTPUT_FILE \in Range(tree[<<>>].files) /\ prevDoc # <<>> /\ opened # <<>>

\* C8: a second run over the unchanged tree writes the document the first
\* run wrote.
C8_SecondRunSameDocument == (run >= 2 /\ pc = "done") => doc = prevDoc

C8_Witness == run = 2 /\ pc = "done" /\ Len(doc) >= 8 /\ unreadable # {}

\* C9 (as claimed): every directory line of the structure listing is indented
\* by 4 spaces times the directory's depth below the root, and every file
\* line by 4 spaces times that depth plus one.
C9_IndentIsDepth == \A i \in 1..Len(listed) : listed[i].indent = 4 * (Len(Resolve(listed[i].dir)) + IF listed[i].kind = "entry" THEN 1 ELSE 0)

\* The lines of the structure listing that name files, as relative paths.
ListedFiles == LET e == SelectSeq(listed, LAMBDA r : r.kind = "entry") IN [i \in 1..Len(e) |-> RelName(Resolve(e[i].dir), e[i].name)]

\* The FILE lines of the document, in order.
BlockFiles == LET b == SelectSeq(doc, LAMBDA c : c.kind = "file") IN [i \in 1..Len(b) |-> b[i].text]

\* A write of the structure section (its terminator apart).
IsStructureChunk(c) == c.kind \in { "title", "dir", "entry" } \/ (c.kind = "rule" /\ c.indent = TitleRuleWidth)

\* A write of a FILE block (its closing newlines apart).
IsBlockChunk(c) == c.kind \in { "file", "content" } \/ (c.kind = "rule" /\ c.indent = SeparatorWidth)

\* C10: in mergecode.py, once any write of a FILE block is in the document,
\* the structure section is complete (a line for every directory that is not
\* ignored) and it and its terminator stand before that write; and a finished
\* run has listed in the structure section the very files it wrote FILE
\* lines for, in the same order.
C10_StructureThenSameFiles == variant = "mergecode" => /\ \A j \in 1..Len(doc) : IsBlockChunk(doc[j]) => /\ \E k \in 1..(j - 1) : doc[k].kind = "blank" /\ \A i \in 1..Len(doc) : IsStructureChunk(doc[i]) => i < k
                                                                                                       /\ Cardinality({ i \in 1..Len(doc) : doc[i].kind = "dir" }) = Cardinality({ d \in DOMAIN tree : ~UnderIgnored(d) })
                                                       /\ pc = "done" => ListedFiles = BlockFiles

C10_Witness == variant = "mergecode" /\ pc = "done" /\ Len(BlockFiles) >= 2 /\ unreadable # {} /\ Cardinality(DOMAIN tree) >= 2

\* C7 (as claimed): a name is included exactly when what stands from its
\* last '.' to its end is in the allow-set.
C7_LastDotExtension == tres # "untested" => (tres = "included" <=> LastDotExt(tname) \in ALLOWED_EXTENSIONS(variant))

\* C7 (amended): a name is included exactly when what stands from its last
\* '.' to its end is in the allow-set and some character other than '.'
\* stands before that dot.
C7_StemmedExtension == tres # "untested" => (tres = "included" <=> StemmedExt(tname) \in IF variant = "merge_code" THEN ALLOWED_EXTENSIONS_merge_code ELSE ALLOWED_EXTENSIONS_mergecode)

C7_Witness == tres = "included" /\ tname[1] = "." /\ Len(tname) >= 4

====
